---- MODULE Spec2Model ----
(***************************************************************************)
(* Model of lambda_function.py: an AWS Lambda handler that receives a      *)
(* batch of SQS messages carrying S3 change notifications, reads each      *)
(* object, extracts its text, splits it into overlapping chunks, embeds    *)
(* every chunk and upserts the resulting vectors into a Pinecone index.    *)
(*                                                                         *)
(* Strings are sequences of one-character strings, so that slicing,        *)
(* stripping, extension splitting and concatenation are computed the way   *)
(* Python computes them.                                                   *)
(***************************************************************************)
EXTENDS Integers, Sequences, FiniteSets, TLC

VARIABLES
    \* ---- environment of lambda_handler
    batch,            \* event['Records']: sequence of envelopes, each a sequence of S3 records
    s3,               \* the object store: <<bucket, key>> -> the object there, or NoSuchKey
    index,            \* the Pinecone index: a set of vector records
    targets,          \* the namespaces of the index that upserts have written to
    \* ---- lambda_handler
    pc,               \* "idle", "record", "embed", "done" (returned), "failed" (raised)
    cur,              \* <<envelope number, record number>> of the S3 record in progress
    chunks,           \* local: the chunks of the document in progress
    vectors,          \* local: the vector records prepared so far
    processed_count,  \* local: documents uploaded in this invocation
    response,         \* what the invocation returned to its caller, or NoResponse
    \* ---- observation of one invocation and of the history of invocations
    invocation,       \* number of invocations started
    calls,            \* external calls of this invocation: <<service, cur, chunk index>>
    err,              \* the exception of this invocation: its record and the call that raised, or NoErr
    lastDone,         \* the document of the latest upsert and how many times in a row, or NoDoc
    prev,             \* how the previous invocation ended, and its processed_count
    puts,             \* number of objects overwritten since the first invocation
    \* ---- one call of chunk_text
    ct_pc,            \* "off", "loop", "done"
    ct_text,          \* argument text
    ct_size,          \* argument chunk_size
    ct_overlap,       \* argument overlap
    ct_start,         \* local start
    ct_chunks,        \* local chunks
    ct_windows        \* the <<start, end>> pairs the loop has examined

hvars == <<batch, s3, index, targets, pc, cur, chunks, vectors,
           processed_count, response, invocation, calls, err, lastDone, prev, puts>>
cvars == <<ct_pc, ct_text, ct_size, ct_overlap, ct_start, ct_chunks, ct_windows>>
vars == <<hvars, cvars>>

\* no record: the value of cur before and after the loops
NoPos == <<0, 0>>
\* no exception so far
NoErr == [pos |-> NoPos, in |-> "none"]
\* no document: the value of lastDone before the first upsert
NoDoc == [loc |-> <<>>, times |-> 0]
\* nothing returned: the invocation is running, or an exception left it
NoResponse == [statusCode |-> 0, body |-> <<>>]
\* what get_object finds at a locator
NoSuchKey == [found |-> FALSE, body |-> "none"]
Object(name) == [found |-> TRUE, body |-> name]

----------------------------------------------------------------------------
(* Python string primitives                                                *)

MinOf(S) == CHOOSE x \in S : \A y \in S : x <= y
MaxOf(S) == CHOOSE x \in S : \A y \in S : x >= y

Rep(c, n) == [i \in 1..n |-> c]

\* s[start:end] for 0-based start and end, negative ones counted from the end
Slice(s, start, end) ==
    LET n  == Len(s)
        lo == IF start < 0 THEN (IF start + n < 0 THEN 0 ELSE start + n)
                           ELSE (IF start > n THEN n ELSE start)
        hi == IF end < 0 THEN (IF end + n < 0 THEN 0 ELSE end + n)
                         ELSE (IF end > n THEN n ELSE end)
    IN  IF lo >= hi THEN <<>> ELSE SubSeq(s, lo + 1, hi)

IsSpace(c) == c \in {" ", "\n", "\t"}

\* the least (dir = 1) or the greatest (dir = -1) i in lo..hi with s[i] not a
\* space, 0 when there is none; by halving, so that the depth stays logarithmic
RECURSIVE NonSpace(_, _, _, _)
NonSpace(s, lo, hi, dir) ==
    IF lo > hi THEN 0
    ELSE IF lo = hi THEN (IF IsSpace(s[lo]) THEN 0 ELSE lo)
    ELSE LET mid == (lo + hi) \div 2
             near == IF dir = 1 THEN NonSpace(s, lo, mid, dir)
                                ELSE NonSpace(s, mid + 1, hi, dir)
         IN  IF near # 0 THEN near
             ELSE IF dir = 1 THEN NonSpace(s, mid + 1, hi, dir)
                             ELSE NonSpace(s, lo, mid, dir)

\* str.strip(): drop the leading and the trailing whitespace
strip(s) ==
    LET first == NonSpace(s, 1, Len(s), 1)
    IN  IF first = 0 THEN <<>>
        ELSE SubSeq(s, first, NonSpace(s, 1, Len(s), -1))

\* str.lower() on the letters the keys use
lower(s) ==
    [i \in 1..Len(s) |->
        CASE s[i] = "T" -> "t" [] s[i] = "X" -> "x" [] s[i] = "M" -> "m"
          [] s[i] = "D" -> "d" [] s[i] = "P" -> "p" [] s[i] = "F" -> "f"
          [] OTHER -> s[i]]

\* str(i) for i >= 0
RECURSIVE str(_)
str(i) ==
    LET d == <<"0", "1", "2", "3", "4", "5", "6", "7", "8", "9">>
    IN  IF i < 10 THEN <<d[i + 1]>> ELSE str(i \div 10) \o <<d[(i % 10) + 1]>>

\* needle in hay
Contains(hay, needle) ==
    \E k \in 0..(Len(hay) - Len(needle)) :
        SubSeq(hay, k + 1, k + Len(needle)) = needle

\* sep.join(parts)
RECURSIVE join(_, _)
join(sep, parts) ==
    IF parts = <<>> THEN <<>>
    ELSE IF Len(parts) = 1 THEN parts[1]
    ELSE parts[1] \o sep \o join(sep, Tail(parts))

\* s.split(sep) for a one-character sep
RECURSIVE split(_, _)
split(s, sep) ==
    LET at == {i \in 1..Len(s) : s[i] = sep}
    IN  IF at = {} THEN <<s>>
        ELSE <<SubSeq(s, 1, MinOf(at) - 1)>> \o split(SubSeq(s, MinOf(at) + 1, Len(s)), sep)

\* os.path.splitext(p)[1]
splitext(p) ==
    LET seps == {i \in 1..Len(p) : p[i] = "/"}
        dots == {i \in 1..Len(p) : p[i] = "."}
        sep  == IF seps = {} THEN 0 ELSE MaxOf(seps)
        dot  == IF dots = {} THEN 0 ELSE MaxOf(dots)
    IN  IF dot > sep /\ (\E k \in (sep + 1)..(dot - 1) : p[k] # ".")
        THEN SubSeq(p, dot, Len(p))
        ELSE <<>>

----------------------------------------------------------------------------
(* chunk_text                                                              *)

\* the test `if chunk.strip()`
RetainedNoStrip(chunk) == chunk # <<>>
Retained(chunk) == strip(chunk) # <<>>

\* start += chunk_size - overlap
AdvanceNoOverlap(start, chunk_size, overlap) == start + chunk_size
Advance(start, chunk_size, overlap) == start + chunk_size - overlap

\* the while loop of chunk_text, from the given start and chunks
RECURSIVE chunk_loop(_, _, _, _, _)
chunk_loop(text, chunk_size, overlap, start, acc) ==
    IF start < Len(text)
    THEN LET chunk == Slice(text, start, start + chunk_size)
         IN  chunk_loop(text, chunk_size, overlap,
                        Advance(start, chunk_size, overlap),
                        IF Retained(chunk) THEN Append(acc, chunk) ELSE acc)
    ELSE acc

\* chunk_text(text, chunk_size, overlap); it returns only when overlap < chunk_size
\* or the text is empty
chunk_text_full_windows(text, chunk_size, overlap) ==
    SelectSeq(chunk_loop(text, chunk_size, overlap, 0, <<>>),
              LAMBDA chunk : Len(chunk) = chunk_size)
chunk_text(text, chunk_size, overlap) == chunk_loop(text, chunk_size, overlap, 0, <<>>)

----------------------------------------------------------------------------
(* The inputs: buckets, keys, event names, object contents                 *)

MaxEnvelopes == 2      \* envelopes (SQS messages) in a batch
MaxRecords == 2        \* S3 records in a batch, over all its envelopes
MaxInvocations == 2    \* invocations of lambda_handler on the batch
MaxPuts == 1           \* objects overwritten between invocations

Bucket1 == <<"b", "1">>
Bucket2 == <<"b", "2">>

KeyTxt  == <<"a", ".", "t", "x", "t">>
KeyDocx == <<"d", ".", "D", "o", "c", "x">>
KeyPdf  == <<"e", ".", "p", "d", "f">>
KeyPng  == <<"i", ".", "p", "n", "g">>
KeyDir  == <<"x", ".", "t", "x", "t", "/">>

EventPut    == <<"O", "b", "j", "e", "c", "t", "C", "r", "e", "a", "t", "e", "d", ":", "P", "u", "t">>
EventDelete == <<"O", "b", "j", "e", "c", "t", "R", "e", "m", "o", "v", "e", "d", ":", "D", "e", "l", "e", "t", "e">>

\* object bodies; a byte is a one-character string, "FF" is the byte 0xFF
BodyTwoChunks == Rep("a", 1500)
BodyGap       == Rep(" ", 1000) \o Rep("a", 800) \o <<"FF">>
BodyDocx      == <<"K", "a", "b", "\n", " ", "\n", "c", "d">>
BodyBadDocx   == <<"a", "b">>
BodyBlankPdf  == <<"%", " ", "\f", "\n">>
BodyEmpty     == <<>>
BodyRewritten == <<"o", "k">>

\* the store holds a body under its name
Body(name) ==
    CASE name = "two_chunks" -> BodyTwoChunks
      [] name = "gap"        -> BodyGap
      [] name = "docx"       -> BodyDocx
      [] name = "bad_docx"   -> BodyBadDocx
      [] name = "blank_pdf"  -> BodyBlankPdf
      [] name = "empty"      -> BodyEmpty
      [] name = "rewritten"  -> BodyRewritten

Locs == {Bucket1, Bucket2} \X {KeyTxt, KeyDocx, KeyPdf, KeyPng, KeyDir}

\* the object store before the first invocation
InitialStore ==
    [loc \in Locs |->
        CASE loc = <<Bucket1, KeyTxt>>  -> Object("two_chunks")
          [] loc = <<Bucket2, KeyTxt>>  -> Object("gap")
          [] loc = <<Bucket1, KeyDocx>> -> Object("docx")
          [] loc = <<Bucket2, KeyDocx>> -> Object("bad_docx")
          [] loc = <<Bucket1, KeyPdf>>  -> Object("blank_pdf")
          [] loc = <<Bucket2, KeyPdf>>  -> Object("empty")
          [] loc = <<Bucket1, KeyPng>>  -> Object("docx")
          [] loc = <<Bucket1, KeyDir>>  -> Object("empty")
          [] OTHER -> NoSuchKey]

S3Record(b, k, e) == [bucket |-> b, key |-> k, eventName |-> e]

\* the S3 records a batch is made of
Docs ==
    { S3Record(Bucket1, KeyTxt, EventPut),
      S3Record(Bucket2, KeyTxt, EventPut),
      S3Record(Bucket1, KeyDocx, EventPut),
      S3Record(Bucket2, KeyDocx, EventPut),
      S3Record(Bucket1, KeyPdf, EventPut),
      S3Record(Bucket2, KeyPdf, EventPut),
      S3Record(Bucket1, KeyPng, EventPut),
      S3Record(Bucket1, KeyDir, EventPut),
      S3Record(Bucket1, KeyTxt, EventDelete) }

\* the non-empty sequences over S of at most n elements
SeqsUpTo(S, n) == UNION {[1..k -> S] : k \in 1..n}

\* batches of at most envs envelopes and recs records; an envelope carries at
\* least one record
RECURSIVE BatchesOf(_, _)
BatchesOf(envs, recs) ==
    IF envs = 0 \/ recs = 0 THEN {<<>>}
    ELSE {<<>>} \cup
         UNION { { <<e>> \o rest : rest \in BatchesOf(envs - 1, recs - Len(e)) }
                 : e \in SeqsUpTo(Docs, recs) }

Batches == BatchesOf(MaxEnvelopes, MaxRecords)

----------------------------------------------------------------------------
(* Extraction                                                              *)

Raised == [raised |-> TRUE, text |-> <<>>]
Returned(t) == [raised |-> FALSE, text |-> t]

\* bytes.decode('utf-8') succeeds on ASCII bytes and fails on the byte 0xFF;
\* bytes.decode('latin-1') maps every byte to the character of the same number
extract_text_from_txt(file_content) ==
    IF \A i \in 1..Len(file_content) : file_content[i] # "FF"
    THEN Returned(file_content)
    ELSE Returned([i \in 1..Len(file_content) |->
                     IF file_content[i] = "FF" THEN "U+00FF" ELSE file_content[i]])

\* the library call Document(BytesIO(file_content)).paragraphs: a body that does not
\* start with the container's magic byte is rejected with an exception, the
\* paragraphs of a well-formed body are its lines
Document(file_content) ==
    IF file_content # <<>> /\ file_content[1] = "K"
    THEN Returned(split(Tail(file_content), "\n"))
    ELSE Raised

\* the library call PdfReader(BytesIO(file_content)).pages, each page already
\* through extract_text(): pages are separated by form feeds
PdfReader(file_content) ==
    IF file_content # <<>> /\ file_content[1] = "%"
    THEN Returned(split(Tail(file_content), "\f"))
    ELSE Raised

\* the parts with some text, joined with newlines
JoinNonBlank(parts) ==
    join(<<"\n">>, SelectSeq(parts, LAMBDA t : strip(t) # <<>>))

extract_text_from_docx(file_content) ==
    LET doc == Document(file_content)
    IN  IF doc.raised THEN Raised ELSE Returned(JoinNonBlank(doc.text))

extract_text_from_pdf(file_content) ==
    LET pdf_reader == PdfReader(file_content)
    IN  IF pdf_reader.raised THEN Raised ELSE Returned(JoinNonBlank(pdf_reader.text))

ExtTxt  == <<".", "t", "x", "t">>
ExtMd   == <<".", "m", "d">>
ExtDocx == <<".", "d", "o", "c", "x">>
ExtPdf  == <<".", "p", "d", "f">>

extract_text(file_content, file_extension) ==
    LET e == lower(file_extension)
    IN  CASE e \in {ExtTxt, ExtMd} -> extract_text_from_txt(file_content)
          [] e = ExtDocx -> extract_text_from_docx(file_content)
          [] e = ExtPdf -> extract_text_from_pdf(file_content)
          [] OTHER -> Raised

----------------------------------------------------------------------------
(* Embedding and the index                                                 *)

ChunkSize == 1000      \* chunk_text(text, chunk_size=1000, ...)
Overlap == 200         \* chunk_text(text, ..., overlap=200)
PreviewLen == 1000     \* chunk[:1000]

\* the embedding service: the same vector for the same text
get_embedding(text) == <<Len(text), Len(strip(text))>>

ChunkSuffix == <<"_", "c", "h", "u", "n", "k", "_">>
S3Scheme == <<"s", "3", ":", "/", "/">>

\* vector_id = f"{object_key}_chunk_{i}"
VectorIdPerRun(bucket_name, object_key, i) ==
    object_key \o ChunkSuffix \o str(i) \o <<"#">> \o str(invocation)
VectorId(bucket_name, object_key, i) == object_key \o ChunkSuffix \o str(i)

\* 'total_chunks': len(chunks)
TotalChunksWindows(cs) ==
    LET loc == <<batch[cur[1]][cur[2]].bucket, batch[cur[1]][cur[2]].key>>
        n   == Len(Body(s3[loc].body))
    IN  Cardinality({k \in 0..n : k * (ChunkSize - Overlap) < n})
TotalChunks(cs) == Len(cs)

\* the dict appended to vectors for chunk i (counted from 0)
VectorRecordStamped(bucket_name, object_key, file_extension, i, cs) ==
    [ id       |-> VectorId(bucket_name, object_key, i),
      values   |-> get_embedding(cs[i + 1]),
      metadata |-> [ source       |-> S3Scheme \o bucket_name \o <<"/">> \o object_key,
                     chunk_index  |-> i,
                     text         |-> Slice(cs[i + 1], 0, PreviewLen),
                     file_type    |-> file_extension,
                     total_chunks |-> TotalChunks(cs),
                     processed_at |-> invocation ] ]
VectorRecord(bucket_name, object_key, file_extension, i, cs) ==
    [ id       |-> VectorId(bucket_name, object_key, i),
      values   |-> get_embedding(cs[i + 1]),
      metadata |-> [ source       |-> S3Scheme \o bucket_name \o <<"/">> \o object_key,
                     chunk_index  |-> i,
                     text         |-> Slice(cs[i + 1], 0, PreviewLen),
                     file_type    |-> file_extension,
                     total_chunks |-> TotalChunks(cs) ] ]

Range(f) == {f[j] : j \in DOMAIN f}

\* os.getenv(name, default) in the environment env
getenv(env, name, default) == IF name \in DOMAIN env THEN env[name] ELSE default

\* the configurations of a deployment: PINECONE_NAMESPACE unset, or set
Environments ==
    { [name \in {} |-> "unset"],
      [name \in {"PINECONE_NAMESPACE"} |-> "docs"] }

\* pc_namespace = os.getenv('PINECONE_NAMESPACE', '__default__'), in the
\* environment env; no statement of the module reads it afterwards, so it is
\* not part of the state
pc_namespace(env) == getenv(env, "PINECONE_NAMESPACE", "__default__")

\* the namespace of an index operation that names none
DefaultNamespace == "__default__"

\* the namespace of pc_index.upsert(vectors=vectors): none is passed
UpsertNamespace == DefaultNamespace

\* pc_index.upsert(vectors=vs): a record replaces the stored record of the same id
upsert(idx, vs) ==
    {r \in idx : \A j \in 1..Len(vs) : vs[j].id # r.id} \cup Range(vs)

----------------------------------------------------------------------------
(* lambda_handler                                                          *)

Positions(b) == UNION { {<<e, r>> : r \in 1..Len(b[e])} : e \in 1..Len(b) }

Before(p, q) == p[1] < q[1] \/ (p[1] = q[1] /\ p[2] < q[2])

\* the first record of the two loops, and the record after p; NoPos when there is none
FirstPos(b) ==
    IF Positions(b) = {} THEN NoPos
    ELSE CHOOSE p \in Positions(b) : \A q \in Positions(b) : p = q \/ Before(p, q)

NextPos(b, p) ==
    LET later == {q \in Positions(b) : Before(p, q)}
    IN  IF later = {} THEN NoPos
        ELSE CHOOSE q \in later : \A q2 \in later : q = q2 \/ Before(q, q2)

Rec == batch[cur[1]][cur[2]]
Loc == <<Rec.bucket, Rec.key>>

\* file_extension = os.path.splitext(object_key)[1]
FileExtension(rec) == splitext(rec.key)

Supported == {ExtTxt, ExtMd, ExtDocx, ExtPdf}

DeleteWord == <<"D", "e", "l", "e", "t", "e">>

\* the checks made before the object is read
PreFilter(rec) ==
    IF Contains(rec.eventName, DeleteWord) THEN "delete"
    ELSE IF lower(FileExtension(rec)) \notin Supported THEN "unsupported"
    ELSE IF rec.key # <<>> /\ rec.key[Len(rec.key)] = "/" THEN "folder"
    ELSE "pass"

\* the object is there and the record gets as far as reading it
Readable == PreFilter(Rec) = "pass" /\ s3[Loc].found

\* file_content = response['Body'].read()
FileContent == Body(s3[Loc].body)

\* text = extract_text(file_content, file_extension) and
\* chunk_text(text, chunk_size=1000, overlap=200), tabulated over the bodies and
\* the extensions of the model so that each is computed once
BodyNames == {"two_chunks", "gap", "docx", "bad_docx", "blank_pdf", "empty", "rewritten"}
Extensions == {FileExtension(d) : d \in Docs}

Extracting ==
    [name \in BodyNames, ext \in Extensions |-> extract_text(Body(name), ext)]

Chunking ==
    [name \in BodyNames, ext \in Extensions |->
        IF Extracting[name, ext].raised THEN <<>>
        ELSE chunk_text(Extracting[name, ext].text, ChunkSize, Overlap)]

\* `if not text or len(text.strip()) == 0`
NoText ==
    [name \in BodyNames, ext \in Extensions |->
        Len(Extracting[name, ext].text) = 0 \/ Len(strip(Extracting[name, ext].text)) = 0]

Extracted == Extracting[s3[Loc].body, FileExtension(Rec)]

Called(service, i) == calls' = Append(calls, <<service, cur, i>>)

\* json.dumps(f'Successfully processed {n} files')
json_dumps(t) == <<"\"">> \o t \o <<"\"">>
Message(n) ==
    <<"S", "u", "c", "c", "e", "s", "s", "f", "u", "l", "l", "y", " ", "p", "r", "o", "c", "e", "s", "s", "e", "d", " ">>
        \o str(n) \o <<" ", "f", "i", "l", "e", "s">>

\* return {'statusCode': 200, 'body': ...}
Returning(n) == [statusCode |-> 200, body |-> json_dumps(Message(n))]

\* the end of one iteration of the inner loop: on to the next record, or return
Continue ==
    LET n == NextPos(batch, cur)
    IN  /\ pc' = IF n = NoPos THEN "done" ELSE "record"
        /\ cur' = n
        /\ chunks' = <<>>
        /\ vectors' = <<>>
        /\ response' = IF n = NoPos THEN Returning(processed_count') ELSE response

\* the statement `continue` of a skipped record
SkippedCounted ==
    /\ processed_count' = processed_count + 1
    /\ Continue
    /\ UNCHANGED <<index, targets, err, lastDone>>
Skipped ==
    /\ processed_count' = processed_count
    /\ Continue
    /\ UNCHANGED <<index, targets, err, lastDone>>

\* `except Exception as e: ... raise`: the exception of the named call leaves
\* lambda_handler
RaiseSwallowed(call) ==
    /\ processed_count' = processed_count
    /\ Continue
    /\ err' = [pos |-> cur, in |-> call]
    /\ UNCHANGED <<index, targets, lastDone>>
RaiseRollback(call) ==
    /\ pc' = "failed"
    /\ err' = [pos |-> cur, in |-> call]
    /\ chunks' = <<>>
    /\ vectors' = <<>>
    /\ index' = {}
    /\ response' = NoResponse
    /\ UNCHANGED <<cur, targets, processed_count, lastDone>>
RaiseReturned(call) ==
    /\ pc' = "failed"
    /\ err' = [pos |-> cur, in |-> call]
    /\ chunks' = <<>>
    /\ vectors' = <<>>
    /\ response' = [statusCode |-> 500, body |-> json_dumps(Message(processed_count))]
    /\ UNCHANGED <<cur, index, targets, processed_count, lastDone>>
Raise(call) ==
    /\ pc' = "failed"
    /\ err' = [pos |-> cur, in |-> call]
    /\ chunks' = <<>>
    /\ vectors' = <<>>
    /\ response' = NoResponse
    /\ UNCHANGED <<cur, index, targets, processed_count, lastDone>>

Env == <<batch, s3, invocation, prev, puts>>

\* the invoking environment calls lambda_handler(event, context) with the batch
Invoke ==
    /\ pc \in {"idle", "done", "failed"}
    /\ invocation < MaxInvocations
    /\ invocation' = invocation + 1
    /\ prev' = IF pc = "idle" THEN prev
               ELSE [outcome |-> pc, count |-> processed_count]
    /\ processed_count' = 0
    /\ calls' = <<>>
    /\ err' = NoErr
    /\ chunks' = <<>>
    /\ vectors' = <<>>
    /\ cur' = FirstPos(batch)
    /\ pc' = IF FirstPos(batch) = NoPos THEN "done" ELSE "record"
    /\ response' = IF FirstPos(batch) = NoPos THEN Returning(0) ELSE NoResponse
    /\ UNCHANGED <<batch, s3, index, targets, lastDone, puts, cvars>>

\* a delete event, an unsupported extension or a folder key: skipped unread
SkipRecord ==
    /\ pc = "record"
    /\ PreFilter(Rec) # "pass"
    /\ Skipped
    /\ UNCHANGED <<calls, Env, cvars>>

\* s3_client.get_object raises: no such key, or a transport error
GetObjectError ==
    /\ pc = "record"
    /\ PreFilter(Rec) = "pass"
    /\ Called("s3", 0)
    /\ Raise("get_object")
    /\ UNCHANGED <<Env, cvars>>

\* the object has no bytes
SkipEmptyFile ==
    /\ pc = "record"
    /\ Readable
    /\ Len(FileContent) = 0
    /\ Called("s3", 0)
    /\ Skipped
    /\ UNCHANGED <<Env, cvars>>

\* extract_text raises
ExtractError ==
    /\ pc = "record"
    /\ Readable
    /\ Len(FileContent) # 0
    /\ Extracted.raised
    /\ Called("s3", 0)
    /\ Raise("extract_text")
    /\ UNCHANGED <<Env, cvars>>

\* the extracted text is empty or blank
SkipNoText ==
    /\ pc = "record"
    /\ Readable
    /\ Len(FileContent) # 0
    /\ ~Extracted.raised
    /\ NoText[s3[Loc].body, FileExtension(Rec)]
    /\ Called("s3", 0)
    /\ Skipped
    /\ UNCHANGED <<Env, cvars>>

\* chunks = chunk_text(text, chunk_size=1000, overlap=200); vectors = []
ChunkDocument ==
    /\ pc = "record"
    /\ Readable
    /\ Len(FileContent) # 0
    /\ ~Extracted.raised
    /\ ~NoText[s3[Loc].body, FileExtension(Rec)]
    /\ Called("s3", 0)
    /\ chunks' = Chunking[s3[Loc].body, FileExtension(Rec)]
    /\ vectors' = <<>>
    /\ pc' = "embed"
    /\ UNCHANGED <<cur, index, targets, processed_count, response, err, lastDone,
                   Env, cvars>>

\* one iteration of `for i, chunk in enumerate(chunks)`
EmbedChunkRetried ==
    /\ pc = "embed"
    /\ Len(vectors) < Len(chunks)
    /\ calls' = calls \o << <<"openai", cur, Len(vectors)>>, <<"openai", cur, Len(vectors)>> >>
    /\ vectors' = Append(vectors,
          VectorRecord(Rec.bucket, Rec.key, FileExtension(Rec), Len(vectors), chunks))
    /\ UNCHANGED <<pc, cur, chunks, index, targets, processed_count, response, err,
                   lastDone, Env, cvars>>
EmbedChunk ==
    /\ pc = "embed"
    /\ Len(vectors) < Len(chunks)
    /\ Called("openai", Len(vectors))
    /\ vectors' = Append(vectors,
          VectorRecord(Rec.bucket, Rec.key, FileExtension(Rec), Len(vectors), chunks))
    /\ UNCHANGED <<pc, cur, chunks, index, targets, processed_count, response, err,
                   lastDone, Env, cvars>>

\* get_embedding raises
EmbedErrorPartialWrite ==
    /\ pc = "embed"
    /\ Len(vectors) < Len(chunks)
    /\ Called("openai", Len(vectors))
    /\ pc' = "failed"
    /\ err' = [pos |-> cur, in |-> "get_embedding"]
    /\ index' = upsert(index, vectors)
    /\ chunks' = <<>>
    /\ vectors' = <<>>
    /\ response' = NoResponse
    /\ UNCHANGED <<cur, targets, processed_count, lastDone, Env, cvars>>
EmbedError ==
    /\ pc = "embed"
    /\ Len(vectors) < Len(chunks)
    /\ Called("openai", Len(vectors))
    /\ Raise("get_embedding")
    /\ UNCHANGED <<Env, cvars>>

\* pc_index.upsert(vectors=vectors) returns; processed_count += 1
UpsertDoneCountsVectors ==
    /\ pc = "embed"
    /\ Len(vectors) = Len(chunks)
    /\ Called("pinecone", Len(vectors))
    /\ index' = upsert(index, vectors)
    /\ targets' = targets \cup {UpsertNamespace}
    /\ processed_count' = processed_count + Len(vectors)
    /\ lastDone' = [loc |-> Loc,
                    times |-> IF lastDone.loc = Loc
                              THEN lastDone.times + 1 ELSE 1]
    /\ Continue
    /\ UNCHANGED <<err, Env, cvars>>
UpsertDone ==
    /\ pc = "embed"
    /\ Len(vectors) = Len(chunks)
    /\ Called("pinecone", Len(vectors))
    /\ index' = upsert(index, vectors)
    /\ targets' = targets \cup {UpsertNamespace}
    /\ processed_count' = processed_count + 1
    /\ lastDone' = [loc |-> Loc,
                    times |-> IF lastDone.loc = Loc
                              THEN lastDone.times + 1 ELSE 1]
    /\ Continue
    /\ UNCHANGED <<err, Env, cvars>>

\* pc_index.upsert raises: the index service rejected the request
UpsertError ==
    /\ pc = "embed"
    /\ Len(vectors) = Len(chunks)
    /\ Called("pinecone", Len(vectors))
    /\ Raise("upsert")
    /\ UNCHANGED <<Env, cvars>>

\* between two invocations an object is uploaded again with another content
PutObject ==
    /\ pc \in {"done", "failed"}
    /\ puts < MaxPuts
    /\ \E body \in {"two_chunks", "rewritten"} :
          /\ s3[<<Bucket1, KeyTxt>>] # Object(body)
          /\ s3' = [s3 EXCEPT ![<<Bucket1, KeyTxt>>] = Object(body)]
    /\ puts' = puts + 1
    /\ lastDone' = IF lastDone.loc = <<Bucket1, KeyTxt>> THEN NoDoc ELSE lastDone
    /\ UNCHANGED <<batch, index, targets, pc, cur, chunks, vectors,
                   processed_count, response, invocation, calls, err, prev, cvars>>

ChunkerOff ==
    /\ ct_pc = "off"
    /\ ct_text = <<>>
    /\ ct_size = 0
    /\ ct_overlap = 0
    /\ ct_start = 0
    /\ ct_chunks = <<>>
    /\ ct_windows = <<>>

Init ==
    /\ batch \in Batches
    /\ s3 = InitialStore
    /\ index = {}
    /\ targets = {}
    /\ response = NoResponse
    /\ pc = "idle"
    /\ cur = NoPos
    /\ chunks = <<>>
    /\ vectors = <<>>
    /\ processed_count = 0
    /\ invocation = 0
    /\ calls = <<>>
    /\ err = NoErr
    /\ lastDone = NoDoc
    /\ prev = [outcome |-> "none", count |-> 0]
    /\ puts = 0
    /\ ChunkerOff

Next ==
    \/ Invoke
    \/ SkipRecord
    \/ GetObjectError
    \/ SkipEmptyFile
    \/ ExtractError
    \/ SkipNoText
    \/ ChunkDocument
    \/ EmbedChunk
    \/ EmbedError
    \/ UpsertDone
    \/ UpsertError
    \/ PutObject

Spec == Init /\ [][Next]_vars

----------------------------------------------------------------------------
(* One call of chunk_text, statement by statement                          *)

MaxTextLen == 4        \* length of the text given to chunk_text
MaxChunkSize == 3      \* chunk_size, and overlap, given to chunk_text

Chars == {"a", " ", "\n"}

\* a text of 2400 characters for the parameters lambda_handler passes
TextRoundTrip ==
    <<" ">> \o Rep("a", 799) \o Rep("b", 800) \o Rep("c", 799) \o <<"\n">>
Texts == UNION {[1..n -> Chars] : n \in 0..MaxTextLen}

\* the handler, never invoked
HandlerOff ==
    /\ batch = <<>>
    /\ s3 = InitialStore
    /\ index = {}
    /\ targets = {}
    /\ response = NoResponse
    /\ pc = "idle"
    /\ cur = NoPos
    /\ chunks = <<>>
    /\ vectors = <<>>
    /\ processed_count = 0
    /\ invocation = 0
    /\ calls = <<>>
    /\ err = NoErr
    /\ lastDone = NoDoc
    /\ prev = [outcome |-> "none", count |-> 0]
    /\ puts = 0

\* chunk_text(text, chunk_size, overlap) is called: chunks = [], start = 0
InitChunk ==
    /\ HandlerOff
    /\ ct_pc = "loop"
    /\ \/ /\ ct_text \in Texts
          /\ ct_size \in 1..MaxChunkSize
          /\ ct_overlap \in 0..MaxChunkSize
       \/ /\ ct_text = TextRoundTrip
          /\ ct_size = ChunkSize
          /\ ct_overlap = Overlap
    /\ ct_start = 0
    /\ ct_chunks = <<>>
    /\ ct_windows = <<>>

\* one iteration of `while start < text_length`; a loop that does not end is
\* followed for MaxTextLen + 2 iterations
ChunkStepStripped ==
    /\ ct_pc = "loop"
    /\ ct_start < Len(ct_text)
    /\ Len(ct_windows) < MaxTextLen + 2
    /\ LET end   == ct_start + ct_size
           chunk == Slice(ct_text, ct_start, end)
       IN  /\ ct_windows' = Append(ct_windows, <<ct_start, end>>)
           /\ ct_chunks' = IF Retained(chunk) THEN Append(ct_chunks, strip(chunk))
                           ELSE ct_chunks
    /\ ct_start' = Advance(ct_start, ct_size, ct_overlap)
    /\ UNCHANGED <<ct_pc, ct_text, ct_size, ct_overlap, hvars>>
ChunkStep ==
    /\ ct_pc = "loop"
    /\ ct_start < Len(ct_text)
    /\ Len(ct_windows) < MaxTextLen + 2
    /\ LET end   == ct_start + ct_size
           chunk == Slice(ct_text, ct_start, end)
       IN  /\ ct_windows' = Append(ct_windows, <<ct_start, end>>)
           /\ ct_chunks' = IF Retained(chunk) THEN Append(ct_chunks, chunk) ELSE ct_chunks
    /\ ct_start' = Advance(ct_start, ct_size, ct_overlap)
    /\ UNCHANGED <<ct_pc, ct_text, ct_size, ct_overlap, hvars>>

\* the loop condition fails: return chunks
ChunkReturn ==
    /\ ct_pc = "loop"
    /\ ~(ct_start < Len(ct_text))
    /\ ct_pc' = "done"
    /\ UNCHANGED <<ct_text, ct_size, ct_overlap, ct_start, ct_chunks, ct_windows, hvars>>

NextChunk == ChunkStep \/ ChunkReturn

SpecChunk == InitChunk /\ [][NextChunk]_vars

----------------------------------------------------------------------------
(* Properties of lambda_handler, checked under Spec                        *)

\* C1: once a call made for a document has raised, the exception has left
\* lambda_handler (the invocation has failed at that document) and no record
\* that comes later in the batch, in the same envelope or in a later one, has
\* been read, embedded or written in that invocation.
C1_ErrorAbortsBatch ==
    err # NoErr =>
        /\ pc = "failed"
        /\ cur = err.pos
        /\ \A j \in 1..Len(calls) : ~Before(err.pos, calls[j][2])

\* an invocation has failed at a record that is not the last of the batch
C1_Witness ==
    /\ pc = "failed"
    /\ err.in \in {"get_object", "extract_text", "get_embedding", "upsert"}
    /\ NextPos(batch, cur) # NoPos

\* C2: the step in which a document fails leaves the index as it is: what the
\* earlier documents of the batch have upserted stays, nothing is written,
\* deleted or rolled back.
C2_FailureKeepsIndex == [][pc' = "failed" => index' = index]_vars

\* an invocation has failed after it had uploaded a document
C2_Witness ==
    /\ pc = "failed"
    /\ processed_count >= 1
    /\ index # {}

\* C3: when a document is processed again after its own latest processing, its
\* content unchanged, the upsert leaves the index exactly as the first
\* processing left it.
C3_ReprocessingIsIdempotent ==
    [][(lastDone' # lastDone /\ lastDone'.times >= 2) => index' = index]_vars

\* a document has been uploaded twice in a row
C3_Witness ==
    /\ lastDone.times >= 2
    /\ index # {}

\* C4: the id of the record prepared for chunk i of the document (container, key)
\* is "{container}/{key}_chunk_{i}".
C4_IdNamesContainer ==
    pc = "embed" =>
        \A j \in 1..Len(vectors) :
            vectors[j].id = Rec.bucket \o <<"/">> \o Rec.key \o ChunkSuffix \o str(j - 1)

\* what a failure-free invocation makes of the index idx on the records recs
Eligible(rec) ==
    LET obj == s3[<<rec.bucket, rec.key>>]
    IN  /\ PreFilter(rec) = "pass"
        /\ obj.found
        /\ Len(Body(obj.body)) # 0
        /\ ~Extracting[obj.body, FileExtension(rec)].raised
        /\ ~NoText[obj.body, FileExtension(rec)]

DocVectors(rec) ==
    LET cs == Chunking[s3[<<rec.bucket, rec.key>>].body, FileExtension(rec)]
    IN  [j \in 1..Len(cs) |->
            VectorRecord(rec.bucket, rec.key, FileExtension(rec), j - 1, cs)]

RECURSIVE Flatten(_)
Flatten(b) == IF b = <<>> THEN <<>> ELSE b[1] \o Flatten(Tail(b))

RECURSIVE FailureFree(_, _)
FailureFree(idx, recs) ==
    IF recs = <<>> THEN idx
    ELSE FailureFree(IF Eligible(recs[1]) THEN upsert(idx, DocVectors(recs[1])) ELSE idx,
                     Tail(recs))

\* C5: whenever an invocation runs to completion with the objects unchanged
\* since the first invocation, whatever invocations of the same batch were
\* aborted before it, the index is the one a single failure-free invocation on
\* the batch produces.
C5_RedeliveryIsSafe ==
    (pc = "done" /\ puts = 0) => index = FailureFree({}, Flatten(batch))

\* a batch was aborted after a document had been uploaded, then delivered again
\* and completed
C5_Witness ==
    /\ pc = "done"
    /\ puts = 0
    /\ prev.outcome = "failed"
    /\ prev.count >= 1
    /\ processed_count >= 2

\* the filtering predicates that need no read, and those on what was read
MatchesUnread ==
    \/ Contains(Rec.eventName, DeleteWord)
    \/ lower(FileExtension(Rec)) \notin Supported
    \/ (Rec.key # <<>> /\ Rec.key[Len(Rec.key)] = "/")

\* the bodies and extensions whose extracted text is empty or all whitespace
Blank ==
    [name \in BodyNames, ext \in Extensions |->
        /\ ~Extracting[name, ext].raised
        /\ \A i \in 1..Len(Extracting[name, ext].text) : IsSpace(Extracting[name, ext].text[i])]

MatchesRead ==
    /\ s3[Loc].found
    /\ \/ Len(FileContent) = 0
       \/ Blank[s3[Loc].body, FileExtension(Rec)]

\* C6: a record that matches a filtering predicate (for the predicates on the
\* content: once get_object has returned the content) is left without an
\* exception, without an embedding call and without a write, processed_count
\* stays, and the loop goes on with the next record of the batch.
C6_FilteredIsSkipped ==
    [][(/\ pc = "record"
        /\ \/ MatchesUnread
           \/ MatchesRead /\ err'.in # "get_object")
       => /\ err' = err
          /\ pc' \in {"record", "done"}
          /\ cur' = NextPos(batch, cur)
          /\ index' = index
          /\ processed_count' = processed_count
          /\ calls' \in {calls, Append(calls, <<"s3", cur, 0>>)}]_vars

\* the first record was read and skipped, the loop is at the next record
C6_Witness ==
    /\ pc = "record"
    /\ invocation = 1
    /\ cur = <<1, 2>>
    /\ calls = << <<"s3", <<1, 1>>, 0>> >>
    /\ processed_count = 0

\* the windows chunk_text examines on a text of n characters
NumWindows(n) == Cardinality({k \in 0..n : k * (ChunkSize - Overlap) < n})

\* C10: the records of an upsert carry the chunk_index values 0, 1, ..., n-1 in
\* order and each the total_chunks n, n being the number of records of the
\* upsert.
C10_IndicesContiguous ==
    (pc = "embed" /\ Len(vectors) = Len(chunks)) =>
        \A j \in 1..Len(vectors) :
            /\ vectors[j].metadata.chunk_index = j - 1
            /\ vectors[j].metadata.total_chunks = Len(vectors)

\* an upsert of two records for a text of which three windows were examined
C10_Witness ==
    /\ pc = "embed"
    /\ Len(vectors) = Len(chunks)
    /\ Len(vectors) = 2
    /\ NumWindows(Len(Extracted.text)) = 3

\* C11: every upsert goes to the namespace read from the configuration
\* (PINECONE_NAMESPACE, '__default__' when unset): no other namespace of the
\* index is written to.
C11_UpsertsToConfiguredNamespace ==
    \A env \in Environments : targets \subseteq {pc_namespace(env)}

\* the notifications of this invocation that have reached DONE: the positions
\* whose upsert call has returned
Done ==
    {calls[j][2] : j \in {k \in 1..Len(calls) :
                              /\ calls[k][1] = "pinecone"
                              /\ ~(err.in = "upsert" /\ err.pos = calls[k][2])}}

\* C12: an output with a status code and the count of the documents that
\* reached DONE is returned when the batch completes and also when a failure
\* aborts it, in the latter case with a status other than success.
C12_OutputAlsoOnAbort ==
    pc \in {"done", "failed"} =>
        /\ response # NoResponse
        /\ Contains(response.body, str(Cardinality(Done)))
        /\ response.statusCode = 200 <=> pc = "done"

\* C12, amended: the output, status 200 and the count of the documents that
\* reached DONE, is returned exactly when the whole batch completes; when a
\* failure aborts the batch the exception leaves lambda_handler and nothing is
\* returned.
C12_OutputOnlyOnCompletion ==
    /\ pc = "done" => response = Returning(Cardinality(Done))
    /\ pc = "failed" => (response = NoResponse /\ err # NoErr)
    /\ pc \in {"idle", "record", "embed"} => response = NoResponse

\* an invocation was aborted after a document had reached DONE: no output
C12_Witness ==
    /\ pc = "failed"
    /\ Cardinality(Done) >= 1
    /\ response = NoResponse

\* C13: at every point processed_count is the number of notifications of the
\* batch that have reached DONE in this invocation, each of them an eligible
\* document counted once, none of them the notification that failed; the count
\* returned on normal completion is that number.
C13_CountIsDone ==
    /\ processed_count = Cardinality(Done)
    /\ \A p \in Done : Eligible(batch[p[1]][p[2]]) /\ p # err.pos
    /\ pc = "done" => response.body = json_dumps(Message(Cardinality(Done)))

\* a batch of two notifications has completed: one reached DONE, the other was
\* filtered out
C13_Witness ==
    /\ pc = "done"
    /\ Len(Flatten(batch)) = 2
    /\ processed_count = 1
    /\ Done # {}

\* the chunk indices of the embedding calls made for the record at p, in the
\* order of the calls
EmbeddingCalls(p) ==
    LET ForP(c) == c[1] = "openai" /\ c[2] = p
        cs      == SelectSeq(calls, ForP)
    IN  [j \in 1..Len(cs) |-> cs[j][3]]

\* the number of records of the upsert made for the record at p
RecordsWritten(p) ==
    LET j == CHOOSE k \in 1..Len(calls) : calls[k][1] = "pinecone" /\ calls[k][2] = p
    IN  calls[j][3]

\* the vectors the embedding service returns for the chunks of a document
Embeddings ==
    [name \in BodyNames, ext \in Extensions |->
        [j \in 1..Len(Chunking[name, ext]) |-> get_embedding(Chunking[name, ext][j])]]

\* C14: for a document that reaches DONE the embedding service has been called
\* once per chunk, for the chunks 0, 1, ... in that order and none twice, so
\* there are as many embedding calls as records written; the record prepared
\* for chunk i carries the vector returned for chunk i; a text document of 1500
\* characters gives 2 records with total_chunks = 2 after 2 embedding calls.
C14_OneEmbeddingPerChunk ==
    /\ \A p \in Done :
          EmbeddingCalls(p) = [j \in 1..RecordsWritten(p) |-> j - 1]
    /\ pc = "embed" =>
          /\ EmbeddingCalls(cur) = [j \in 1..Len(vectors) |-> j - 1]
          /\ \A j \in 1..Len(vectors) :
                vectors[j].values = Embeddings[s3[Loc].body, FileExtension(Rec)][j]
    /\ (/\ pc = "embed"
        /\ Len(vectors) = Len(chunks)
        /\ lower(FileExtension(Rec)) = ExtTxt
        /\ Len(Body(s3[Loc].body)) = 1500) =>
          /\ Len(vectors) = 2
          /\ \A j \in 1..Len(vectors) : vectors[j].metadata.total_chunks = 2
          /\ EmbeddingCalls(cur) = <<0, 1>>

\* the text document of 1500 characters, alone in its batch, has reached DONE
\* after one read, two embedding calls and one upsert
C14_Witness ==
    /\ pc = "done"
    /\ Len(Flatten(batch)) = 1
    /\ batch[1][1].key = KeyTxt
    /\ Len(Body(s3[<<batch[1][1].bucket, batch[1][1].key>>].body)) = 1500
    /\ Done = {<<1, 1>>}
    /\ EmbeddingCalls(<<1, 1>>) = <<0, 1>>
    /\ RecordsWritten(<<1, 1>>) = 2
    /\ Len(calls) = 4

\* the document the record at p names
LocAt(p) == <<batch[p[1]][p[2]].bucket, batch[p[1]][p[2]].key>>

\* the upsert calls of this invocation made for the record at p, and those made
\* for the document loc
UpsertCallsAt(p) ==
    {j \in 1..Len(calls) : calls[j][1] = "pinecone" /\ calls[j][2] = p}
UpsertCallsFor(loc) ==
    {j \in 1..Len(calls) : calls[j][1] = "pinecone" /\ LocAt(calls[j][2]) = loc}

\* this step issues an upsert
UpsertIssued ==
    /\ Len(calls') = Len(calls) + 1
    /\ calls'[Len(calls')][1] = "pinecone"

\* an upsert is issued for the record in progress once its object has been
\* read, its text extracted and chunked and every chunk embedded, in that
\* order; it carries one record per chunk and either stores them all or fails
\* and stores none; nothing else changes the index
WriteIsLast ==
    /\ UpsertIssued =>
          LET n == Len(Chunking[s3[Loc].body, FileExtension(Rec)])
          IN  /\ pc = "embed"
              /\ ~Extracted.raised
              /\ calls'[Len(calls')] = <<"pinecone", cur, n>>
              /\ Len(vectors) = n
              /\ \E j \in 1..Len(calls) :
                    /\ calls[j] = <<"s3", cur, 0>>
                    /\ SubSeq(calls, j + 1, Len(calls))
                         = [i \in 1..n |-> <<"openai", cur, i - 1>>]
              /\ \/ index' = upsert(index, vectors) /\ pc' \in {"record", "done"}
                 \/ index' = index /\ pc' = "failed"
    /\ index' # index => UpsertIssued

\* this step is a failure of extract_text or of get_embedding
ExtractOrEmbedFails ==
    /\ err' # err
    /\ err'.in \in {"extract_text", "get_embedding"}

\* C16: for each eligible document the upsert is issued at most once in an
\* invocation, only after extraction, chunking and the embedding of every
\* chunk have succeeded, with the full set of the document's records; when
\* extraction or an embedding fails, no record of that document is written in
\* that invocation.
C16_WriteOncePerDocument ==
    [][/\ WriteIsLast
       /\ \A loc \in Locs : Cardinality(UpsertCallsFor(loc)') <= 1
       /\ ExtractOrEmbedFails => (index' = index /\ UpsertCallsFor(Loc)' = {})]_vars

\* C16, amended: for each notification of an eligible document the upsert is
\* issued at most once, only after extraction, chunking and the embedding of
\* every chunk have succeeded, with the full set of the document's records;
\* when extraction or an embedding fails, that notification writes no record.
\* (A document notified twice in a batch is upserted once per notification.)
C16_WriteOncePerNotification ==
    [][/\ WriteIsLast
       /\ \A p \in Positions(batch) : Cardinality(UpsertCallsAt(p)') <= 1
       /\ ExtractOrEmbedFails => (index' = index /\ UpsertCallsAt(cur)' = {})]_vars

\* the embedding of the second chunk of a document has failed: nothing of the
\* document was written
C16_Witness ==
    /\ pc = "failed"
    /\ err.in = "get_embedding"
    /\ EmbeddingCalls(cur) = <<0, 1>>
    /\ UpsertCallsAt(cur) = {}
    /\ index = {}

\* C17: no upsert is issued with an empty sequence of records: a document
\* that is not skipped for want of text (its extracted text has a character
\* other than whitespace) has at least one chunk, so its upsert carries at
\* least one record.
C17_UpsertNeverEmpty ==
    /\ pc = "embed" =>
          /\ ~Blank[s3[Loc].body, FileExtension(Rec)]
          /\ chunks # <<>>
          /\ Len(vectors) = Len(chunks) => vectors # <<>>
    /\ \A j \in 1..Len(calls) : calls[j][1] = "pinecone" => calls[j][3] >= 1

\* the latest call is the upsert of a document of one chunk
C17_Witness ==
    /\ calls # <<>>
    /\ calls[Len(calls)][1] = "pinecone"
    /\ calls[Len(calls)][3] = 1
    /\ index # {}

\* C18: two distinct documents never produce the same vector id: a record
\* prepared for the document in progress has the id of a record in the index
\* only if that record is of the same document, so that an upsert overwrites
\* no record of another document.
C18_IdsInjectiveOverDocuments ==
    pc = "embed" =>
        \A j \in 1..Len(vectors) : \A r \in index :
            r.id = vectors[j].id => r.metadata.source = vectors[j].metadata.source

\* the records the index holds for the document loc
Stored(idx, loc) ==
    {r \in idx : r.metadata.source = S3Scheme \o loc[1] \o <<"/">> \o loc[2]}

\* C19: when a document reaches DONE the records the index holds for it are
\* exactly the records of the version just processed, with the chunk indices
\* 0..total_chunks-1: none of an earlier version remains.
C19_NoStaleRecords ==
    [][(UpsertIssued /\ pc' # "failed") =>
          /\ Stored(index', Loc) = Range(vectors)
          /\ \A r \in Stored(index', Loc) :
                /\ r.metadata.total_chunks = Len(vectors)
                /\ r.metadata.chunk_index \in 0..(Len(vectors) - 1)]_vars

----------------------------------------------------------------------------
(* Properties of chunk_text, checked under SpecChunk                       *)

\* C7: chunk_text never loops without advancing, also when overlap >= chunk_size:
\* every iteration of its loop leaves start greater than it was.
C7_LoopAdvances == [][ct_windows' # ct_windows => ct_start' > ct_start]_vars

Stride == ct_size - ct_overlap

\* the numbers k of the offsets k * (chunk_size - overlap) below len(text)
Offsets == {k \in 0..Len(ct_text) : k * Stride < Len(ct_text)}

\* C8: for chunk_size > overlap > 0 the k-th window examined starts at
\* (k-1) * (chunk_size - overlap), so the starts increase strictly by
\* chunk_size - overlap; when chunk_text returns it has examined a window for
\* every such offset below len(text), the last window ends at or after len(text),
\* and every character of the text lies in a window.
C8_WindowsCoverText ==
    (ct_size > ct_overlap /\ ct_overlap > 0) =>
        /\ \A k \in 1..Len(ct_windows) :
              ct_windows[k] = <<(k - 1) * Stride, (k - 1) * Stride + ct_size>>
        /\ \A k \in 2..Len(ct_windows) :
              /\ ct_windows[k][1] > ct_windows[k - 1][1]
              /\ ct_windows[k][1] - ct_windows[k - 1][1] = ct_size - ct_overlap
        /\ ct_pc = "done" =>
              /\ Len(ct_windows) = Cardinality(Offsets)
              /\ ct_windows # <<>> => ct_windows[Len(ct_windows)][2] >= Len(ct_text)
              /\ \A p \in 0..(Len(ct_text) - 1) :
                    \E k \in 1..Len(ct_windows) :
                        ct_windows[k][1] <= p /\ p < ct_windows[k][2]

\* chunk_text has returned after examining overlapping windows
C8_Witness ==
    /\ ct_pc = "done"
    /\ ct_size > ct_overlap
    /\ ct_overlap > 0
    /\ Len(ct_windows) >= 3

Window(k) == Slice(ct_text, k * Stride, k * Stride + ct_size)

NonBlank(w) == \E i \in 1..Len(w) : ~IsSpace(w[i])

\* C9: for chunk_size > overlap >= 0 chunk_text returns the windows that have a
\* character other than whitespace, in order, and none of the blank ones; what
\* it returns is empty exactly when the text is empty or all its windows are
\* blank.
C9_EmptyIffAllBlank ==
    (ct_pc = "done" /\ ct_size > ct_overlap) =>
        /\ ct_chunks = SelectSeq([k \in 1..Cardinality(Offsets) |-> Window(k - 1)], NonBlank)
        /\ ct_chunks = <<>> <=>
              (ct_text = <<>> \/ \A k \in Offsets : ~NonBlank(Window(k)))

\* chunk_text has returned, having dropped a blank window and kept another
C9_Witness ==
    /\ ct_pc = "done"
    /\ ct_size > ct_overlap
    /\ ct_chunks # <<>>
    /\ \E k \in Offsets : ~NonBlank(Window(k))

\* C15: for chunk_size > overlap >= 0 and a text none of whose windows is
\* blank, chunk_text returns the raw substrings
\* text[k*(chunk_size-overlap) : k*(chunk_size-overlap)+chunk_size], unstripped,
\* for k = 0, 1, ... while k*(chunk_size-overlap) < len(text), in that order;
\* a text of length 2400 with 1000 and 200 gives the three chunks at
\* [0,1000), [800,1800) and [1600,2400).
C15_RawWindowsInOrder ==
    (/\ ct_pc = "done"
     /\ ct_size > ct_overlap
     /\ \A k \in Offsets : NonBlank(Window(k))) =>
        /\ Len(ct_chunks) = Cardinality(Offsets)
        /\ \A k \in 1..Len(ct_chunks) :
              ct_chunks[k] = SubSeq(ct_text, (k - 1) * Stride + 1,
                                    MinOf({(k - 1) * Stride + ct_size, Len(ct_text)}))
        /\ (Len(ct_text) = 2400 /\ ct_size = 1000 /\ ct_overlap = 200) =>
              ct_chunks = << SubSeq(ct_text, 1, 1000),
                             SubSeq(ct_text, 801, 1800),
                             SubSeq(ct_text, 1601, 2400) >>

\* chunk_text has returned the three chunks of the text of 2400 characters,
\* the first beginning and the last ending with whitespace
C15_Witness ==
    /\ ct_pc = "done"
    /\ Len(ct_text) = 2400
    /\ Len(ct_chunks) = 3
    /\ IsSpace(ct_chunks[1][1])
    /\ IsSpace(ct_chunks[3][800])

====
